---- MODULE Spec2Model ----
(***************************************************************************)
(* Inferno CLI: the environment-readiness state machine (ensureDocker),    *)
(* the process bridge (PythonBridge.startScan / stop) and the event stream *)
(* kept by the ScanDisplay component (dedup set, history, display window), *)
(* and the screens of App with DockerCheck and TargetInput.                *)
(***************************************************************************)
EXTENDS Integers, Sequences, FiniteSets, TLC

(***************************************************************************)
(* Bounds of the model.                                                    *)
(***************************************************************************)
\* lines the external process writes in one run (specification Spec)
MaxLines == 3
\* lines already streamed when the window specification starts
WindowPrefill == 14
\* further lines the process writes in the window specification
WindowLines == 3
\* consecutive calls of ensureDocker (specification SpecDocker)
MaxCalls == 2

(***************************************************************************)
(* JavaScript values.  A property of an event is a number, a string or     *)
(* undefined (the property is absent).                                     *)
(***************************************************************************)
Num(n) == [tag |-> "number", num |-> n, str |-> ""]
Str(s) == [tag |-> "string", num |-> 0, str |-> s]
Undefined == [tag |-> "undefined", num |-> 0, str |-> ""]

\* `${v}`: the text a template literal puts in place of v
TemplateString(v) ==
    CASE v.tag = "number" -> ToString(v.num)
      [] v.tag = "string" -> v.str
      [] OTHER -> "undefined"

(***************************************************************************)
(* What JSON.parse returns: an object (its properties that the program     *)
(* reads), a number, or null.  Reading a property of a number gives        *)
(* undefined; reading a property of null throws a TypeError.               *)
(***************************************************************************)
Obj(type, timestamp, message, step, title, action) ==
    [kind |-> "object", type |-> type, timestamp |-> timestamp,
     message |-> message, step |-> step, title |-> title, action |-> action]
JsonNumber ==
    [kind |-> "number", type |-> Undefined, timestamp |-> Undefined,
     message |-> Undefined, step |-> Undefined, title |-> Undefined,
     action |-> Undefined]
JsonNull ==
    [kind |-> "null", type |-> Undefined, timestamp |-> Undefined,
     message |-> Undefined, step |-> Undefined, title |-> Undefined,
     action |-> Undefined]

\* the ScanEvent variants of types.ts
ProgressEvent(step, message, ts) ==
    Obj(Str("progress"), Num(ts), Str(message), Str(step), Undefined, Undefined)
AgentActionEvent(action, ts) ==
    Obj(Str("agent_action"), Num(ts), Undefined, Undefined, Undefined, Str(action))
VulnerabilityEvent(title, ts) ==
    Obj(Str("vulnerability"), Num(ts), Undefined, Undefined, Str(title), Undefined)
CompleteEvent(ts) ==
    Obj(Str("complete"), Num(ts), Undefined, Undefined, Undefined, Undefined)
ErrorEvent(message, ts) ==
    Obj(Str("error"), Num(ts), Str(message), Undefined, Undefined, Undefined)

(***************************************************************************)
(* One line of the process's standard output: only blanks, text that is    *)
(* not JSON, or the JSON text of a value.                                  *)
(***************************************************************************)
BlankLine == [form |-> "blank", val |-> JsonNull]
SpaceLine == [form |-> "spaces", val |-> JsonNull]
TextLine == [form |-> "text", val |-> JsonNull]
JsonLine(v) == [form |-> "json", val |-> v]

\* line.trim() is the empty string
TrimIsEmpty(line) == line.form \in {"blank", "spaces"}
\* JSON.parse(line) returns (does not throw a SyntaxError)
JsonParses(line) == line.form = "json"
JsonParse(line) == line.val

\* an object that is valid JSON and has none of the five event types
UnknownTypeObject ==
    Obj(Str("log"), Num(1), Str("m"), Undefined, Undefined, Undefined)

\* the lines the process may write in specification Spec
Lines ==
    { BlankLine, SpaceLine, TextLine,
      JsonLine(JsonNumber), JsonLine(JsonNull), JsonLine(UnknownTypeObject),
      JsonLine(ProgressEvent("reasoning", "m", 1)),
      JsonLine(VulnerabilityEvent("XSS", 1)),
      JsonLine(VulnerabilityEvent("SQLi", 1)),
      JsonLine(CompleteEvent(2)),
      JsonLine(ErrorEvent("boom", 2)) }


(***************************************************************************)
(* State.                                                                  *)
(***************************************************************************)
VARIABLES
    \* PythonBridge: this.process, the position of startScan, calls of
    \* stop(), SIGTERMs sent, what was written to the child's stdin
    process, bpc, stops, kills, stdin,
    \* the external process: its fate, whether its stdout is still open,
    \* the lines it wrote, how many of them the reader has consumed
    procState, stdoutOpen, written, nread,
    \* ScanDisplay: mounted or not, logsRef.current, the events state,
    \* isComplete, pending onComplete timers, and every onEvent call made
    mounted, logsRef, events, isComplete, timers, delivered,
    \* App: the screen state, the scanConfig state and the error state
    screen, scanConfig, error,
    \* DockerCheck: the position of checkDocker, the effect's `cancelled`,
    \* pending onReady timers
    cpc, cancelled, readyTimers,
    \* TargetInput: the step state and the target state
    step, target,
    \* ensureDocker: platform(), position, the status object, the loop
    \* counter i, what it did (progress messages, commands, waits), the
    \* message of the error thrown, the value returned, calls made, what
    \* getDockerStatus answered, and what the call before this one did
    os, dpc, status, pollI, log, thrown, result, calls, probed, prior

bridgeVars == <<process, bpc, stops, kills, stdin>>
procVars == <<procState, stdoutOpen, written, nread>>
displayVars == <<mounted, logsRef, events, isComplete, timers, delivered>>
appVars == <<screen, scanConfig, error>>
checkVars == <<cpc, cancelled, readyTimers>>
inputVars == <<step, target>>
dockerVars == <<os, dpc, status, pollI, log, thrown, result, calls, probed, prior>>
nonDockerVars == <<bridgeVars, procVars, displayVars, appVars, checkVars, inputVars>>
vars == <<bridgeVars, procVars, displayVars, appVars, checkVars, inputVars, dockerVars>>

(***************************************************************************)
(* ensureDocker (utils/docker.ts).                                         *)
(***************************************************************************)
\* the poll loop's bound: for (let i = 0; i < 30; i++)
PollMax == 30

Platforms == {"darwin", "linux", "win32"}

NoStatus == [installed |-> FALSE, running |-> FALSE, imageBuilt |-> FALSE, none |-> TRUE]
DockerStatus(ins, run, img) ==
    [installed |-> ins, running |-> run, imageBuilt |-> img, none |-> FALSE]

Progress(m) == [k |-> "progress", v |-> m]
Exec(c) == [k |-> "exec", v |-> c]
Sleep == [k |-> "sleep", v |-> "1000"]

ErrInstallManually == "Please install Docker Desktop from https://www.docker.com/products/docker-desktop"
ErrStartManually == "Please start Docker manually"
ErrStartTimeout == "Docker failed to start within 30 seconds"
ErrBuild == "Failed to build sandbox image"
ErrCommand == "Command failed"

\* getDockerStatus with three independent queries
GetDockerStatusIndependent(versionOk, psOk, imageOk) ==
    DockerStatus(versionOk, psOk, imageOk)

\* getDockerStatus: versionOk, psOk, imageOk are what each query would
\* answer; a query is issued only if the one before it answered true
GetDockerStatus(versionOk, psOk, imageOk) ==
    DockerStatus(versionOk, versionOk /\ psOk, versionOk /\ psOk /\ imageOk)
GetDockerStatusQueries(versionOk, psOk) ==
    <<Exec("docker --version")>>
    \o (IF versionOk THEN <<Exec("docker ps")>> ELSE <<>>)
    \o (IF versionOk /\ psOk THEN <<Exec("docker images -q")>> ELSE <<>>)

\* installDockerMac: the commands it runs when the first `failAt - 1`
\* succeed (failAt = 0: all succeed), and whether it returns
InstallCommands(failAt) ==
    LET cmds == CASE os = "darwin" -> <<Exec("brew --version"), Exec("brew install --cask docker")>>
                  [] os = "linux" -> <<Exec("curl -fsSL https://get.docker.com"), Exec("sh -c")>>
                  [] OTHER -> <<>>
    IN  IF failAt = 0 THEN cmds ELSE SubSeq(cmds, 1, IF failAt < Len(cmds) THEN failAt ELSE Len(cmds))
InstallSucceeds(failAt) == os \in {"darwin", "linux"} /\ failAt = 0
InstallError(failAt) == IF os = "linux" THEN ErrCommand ELSE ErrInstallManually

\* const status = await getDockerStatus()
EnsureDocker(versionOk, psOk, imageOk) ==
    /\ dpc \in {"idle", "returned", "threw"}
    /\ calls < MaxCalls
    /\ calls' = calls + 1
    /\ status' = GetDockerStatus(versionOk, psOk, imageOk)
    /\ probed' = GetDockerStatus(versionOk, psOk, imageOk)
    /\ prior' = log
    /\ log' = GetDockerStatusQueries(versionOk, psOk)
    /\ pollI' = 0
    /\ thrown' = ""
    /\ result' = NoStatus
    /\ dpc' = "install"
    /\ UNCHANGED os
    /\ UNCHANGED nonDockerVars

\* InstallStage with the error of installDockerMac swallowed: the stages
\* go on after a failed install
InstallStageContinues(failAt) ==
    /\ dpc = "install"
    /\ IF status.installed
       THEN /\ dpc' = "start"
            /\ UNCHANGED <<status, log, thrown>>
       ELSE IF InstallSucceeds(failAt)
       THEN /\ log' = log \o <<Progress("Installing Docker...")>> \o InstallCommands(failAt)
                          \o <<Progress("Docker installed")>>
            /\ status' = [status EXCEPT !.installed = TRUE]
            /\ dpc' = "start"
            /\ UNCHANGED thrown
       ELSE /\ log' = log \o <<Progress("Installing Docker...")>> \o InstallCommands(failAt)
            /\ dpc' = "start"
            /\ UNCHANGED <<status, thrown>>
    /\ UNCHANGED <<os, pollI, result, calls, probed, prior>>
    /\ UNCHANGED nonDockerVars

\* InstallStage without `status.installed = true`
InstallStageKeepsStatus(failAt) ==
    /\ dpc = "install"
    /\ IF status.installed
       THEN /\ dpc' = "start"
            /\ UNCHANGED <<status, log, thrown>>
       ELSE IF InstallSucceeds(failAt)
       THEN /\ log' = log \o <<Progress("Installing Docker...")>> \o InstallCommands(failAt)
                          \o <<Progress("Docker installed")>>
            /\ dpc' = "start"
            /\ UNCHANGED <<status, thrown>>
       ELSE /\ log' = log \o <<Progress("Installing Docker...")>> \o InstallCommands(failAt)
            /\ thrown' = InstallError(failAt)
            /\ dpc' = "threw"
            /\ UNCHANGED status
    /\ UNCHANGED <<os, pollI, result, calls, probed, prior>>
    /\ UNCHANGED nonDockerVars

\* if (!status.installed) { ... }
InstallStage(failAt) ==
    /\ dpc = "install"
    /\ IF status.installed
       THEN /\ dpc' = "start"
            /\ UNCHANGED <<status, log, thrown>>
       ELSE IF InstallSucceeds(failAt)
       THEN /\ log' = log \o <<Progress("Installing Docker...")>> \o InstallCommands(failAt)
                          \o <<Progress("Docker installed")>>
            /\ status' = [status EXCEPT !.installed = TRUE]
            /\ dpc' = "start"
            /\ UNCHANGED thrown
       ELSE /\ log' = log \o <<Progress("Installing Docker...")>> \o InstallCommands(failAt)
            /\ thrown' = InstallError(failAt)
            /\ dpc' = "threw"
            /\ UNCHANGED status
    /\ UNCHANGED <<os, pollI, result, calls, probed, prior>>
    /\ UNCHANGED nonDockerVars

\* StartStage with a startDockerDesktop that returns on every platform:
\* the loop polls where there is nothing to start
StartStagePolls(openOk) ==
    /\ dpc = "start"
    /\ IF status.running
       THEN /\ dpc' = "build"
            /\ UNCHANGED <<log, thrown, pollI>>
       ELSE IF os = "darwin"
       THEN /\ log' = log \o <<Progress("Starting Docker..."), Exec("open -a Docker")>>
            /\ IF openOk
               THEN dpc' = "poll" /\ pollI' = 0 /\ UNCHANGED thrown
               ELSE dpc' = "threw" /\ thrown' = ErrCommand /\ UNCHANGED pollI
       ELSE /\ log' = log \o <<Progress("Starting Docker...")>>
            /\ dpc' = "poll" /\ pollI' = 0
            /\ UNCHANGED thrown
    /\ UNCHANGED <<os, status, result, calls, probed, prior>>
    /\ UNCHANGED nonDockerVars

\* if (!status.running) { onProgress; await startDockerDesktop(); ... }
StartStage(openOk) ==
    /\ dpc = "start"
    /\ IF status.running
       THEN /\ dpc' = "build"
            /\ UNCHANGED <<log, thrown, pollI>>
       ELSE IF os = "darwin"
       THEN /\ log' = log \o <<Progress("Starting Docker..."), Exec("open -a Docker")>>
            /\ IF openOk
               THEN dpc' = "poll" /\ pollI' = 0 /\ UNCHANGED thrown
               ELSE dpc' = "threw" /\ thrown' = ErrCommand /\ UNCHANGED pollI
       ELSE /\ log' = log \o <<Progress("Starting Docker...")>>
            /\ thrown' = ErrStartManually
            /\ dpc' = "threw"
            /\ UNCHANGED pollI
    /\ UNCHANGED <<os, status, result, calls, probed, prior>>
    /\ UNCHANGED nonDockerVars

\* Poll without the progress message after the loop
PollQuiet(psOk) ==
    /\ dpc = "poll"
    /\ pollI < PollMax
    /\ IF psOk
       THEN /\ status' = [status EXCEPT !.running = TRUE]
            /\ log' = log \o <<Sleep, Exec("docker ps")>>
            /\ pollI' = 0
            /\ dpc' = "build"
       ELSE /\ log' = log \o <<Sleep, Exec("docker ps")>>
            /\ pollI' = pollI + 1
            /\ UNCHANGED <<status, dpc>>
    /\ UNCHANGED <<os, thrown, result, calls, probed, prior>>
    /\ UNCHANGED nonDockerVars

\* Poll without the break: the loop goes on after a probe that succeeded
PollContinues(psOk) ==
    /\ dpc = "poll"
    /\ pollI < PollMax
    /\ log' = log \o <<Sleep, Exec("docker ps")>>
    /\ pollI' = pollI + 1
    /\ status' = IF psOk THEN [status EXCEPT !.running = TRUE] ELSE status
    /\ UNCHANGED <<os, dpc, thrown, result, calls, probed, prior>>
    /\ UNCHANGED nonDockerVars

\* one iteration of the loop: wait a second, then checkDockerRunning()
Poll(psOk) ==
    /\ dpc = "poll"
    /\ pollI < PollMax
    /\ IF psOk
       THEN /\ status' = [status EXCEPT !.running = TRUE]
            /\ log' = log \o <<Sleep, Exec("docker ps"), Progress("Docker is running")>>
            /\ pollI' = 0
            /\ dpc' = "build"
       ELSE /\ log' = log \o <<Sleep, Exec("docker ps")>>
            /\ pollI' = pollI + 1
            /\ UNCHANGED <<status, dpc>>
    /\ UNCHANGED <<os, thrown, result, calls, probed, prior>>
    /\ UNCHANGED nonDockerVars

\* PollTimeout without its throw: the stages go on after 30 failed probes
PollTimeoutProceeds ==
    /\ dpc = "poll"
    /\ pollI = PollMax
    /\ dpc' = "build"
    /\ UNCHANGED <<os, status, pollI, log, thrown, result, calls, probed, prior>>
    /\ UNCHANGED nonDockerVars

\* the loop ran out: if (!status.running) throw new Error(...)
PollTimeout ==
    /\ dpc = "poll"
    /\ pollI = PollMax
    /\ IF ~status.running
       THEN dpc' = "threw" /\ thrown' = ErrStartTimeout /\ UNCHANGED log
       ELSE dpc' = "build" /\ log' = Append(log, Progress("Docker is running")) /\ UNCHANGED thrown
    /\ UNCHANGED <<os, status, pollI, result, calls, probed, prior>>
    /\ UNCHANGED nonDockerVars

\* BuildStage without its test of status.imageBuilt: it always builds
BuildStageAlways(buildOk) ==
    /\ dpc = "build"
    /\ IF buildOk
       THEN /\ log' = log \o <<Progress("Building sandbox image..."),
                               Exec("docker build -t inferno-sandbox:latest"),
                               Progress("Sandbox image built successfully")>>
            /\ status' = [status EXCEPT !.imageBuilt = TRUE]
            /\ result' = [status EXCEPT !.imageBuilt = TRUE]
            /\ dpc' = "returned"
            /\ UNCHANGED thrown
       ELSE /\ log' = log \o <<Progress("Building sandbox image..."),
                               Exec("docker build -t inferno-sandbox:latest")>>
            /\ thrown' = ErrBuild
            /\ dpc' = "threw"
            /\ UNCHANGED <<status, result>>
    /\ UNCHANGED <<os, pollI, calls, probed, prior>>
    /\ UNCHANGED nonDockerVars

\* BuildStage with the image looked up again before the decision: an image
\* the call before this one built is found and the build is skipped
BuildStageReprobes(buildOk) ==
    /\ dpc = "build"
    /\ IF status.imageBuilt
          \/ \E k \in DOMAIN prior : prior[k] = Progress("Sandbox image built successfully")
       THEN /\ log' = IF status.imageBuilt THEN log
                      ELSE Append(log, Exec("docker images -q"))
            /\ status' = [status EXCEPT !.imageBuilt = TRUE]
            /\ result' = [status EXCEPT !.imageBuilt = TRUE]
            /\ dpc' = "returned"
            /\ UNCHANGED thrown
       ELSE IF buildOk
       THEN /\ log' = log \o <<Progress("Building sandbox image..."),
                               Exec("docker build -t inferno-sandbox:latest"),
                               Progress("Sandbox image built successfully")>>
            /\ status' = [status EXCEPT !.imageBuilt = TRUE]
            /\ result' = [status EXCEPT !.imageBuilt = TRUE]
            /\ dpc' = "returned"
            /\ UNCHANGED thrown
       ELSE /\ log' = log \o <<Progress("Building sandbox image..."),
                               Exec("docker build -t inferno-sandbox:latest")>>
            /\ thrown' = ErrBuild
            /\ dpc' = "threw"
            /\ UNCHANGED <<status, result>>
    /\ UNCHANGED <<os, pollI, calls, probed, prior>>
    /\ UNCHANGED nonDockerVars

\* if (!status.imageBuilt) { await buildSandboxImage(onProgress); ... } return status
BuildStage(buildOk) ==
    /\ dpc = "build"
    /\ IF status.imageBuilt
       THEN /\ result' = status
            /\ dpc' = "returned"
            /\ UNCHANGED <<status, log, thrown>>
       ELSE IF buildOk
       THEN /\ log' = log \o <<Progress("Building sandbox image..."),
                               Exec("docker build -t inferno-sandbox:latest"),
                               Progress("Sandbox image built successfully")>>
            /\ status' = [status EXCEPT !.imageBuilt = TRUE]
            /\ result' = [status EXCEPT !.imageBuilt = TRUE]
            /\ dpc' = "returned"
            /\ UNCHANGED thrown
       ELSE /\ log' = log \o <<Progress("Building sandbox image..."),
                               Exec("docker build -t inferno-sandbox:latest")>>
            /\ thrown' = ErrBuild
            /\ dpc' = "threw"
            /\ UNCHANGED <<status, result>>
    /\ UNCHANGED <<os, pollI, calls, probed, prior>>
    /\ UNCHANGED nonDockerVars

(***************************************************************************)
(* ScanDisplay (components/ScanDisplay.tsx): the onEvent callback and the  *)
(* values derived from the events state on every render.                   *)
(***************************************************************************)
\* the slice(-15) of the log view
DisplayWindow == 15

\* const key = `${event.type}-${event.timestamp}-${(event as any).message}`
DedupKey(event) ==
    TemplateString(event.type) \o "-" \o TemplateString(event.timestamp)
        \o "-" \o TemplateString(event.message)

\* event.type === 'complete' || event.type === 'error'
IsTerminal(event) == event.type \in {Str("complete"), Str("error")}

\* reading event.type of null throws a TypeError before anything is done
HandlerThrows(event) == event.kind = "null"

\* The callback given to startScan.  A state setter of a component that is
\* no longer mounted changes nothing; logsRef.current is a plain object
\* and setTimeout a plain call, so both act whether mounted or not.
OnEvent(event) ==
    IF HandlerThrows(event)
    THEN UNCHANGED <<logsRef, events, isComplete, timers>>
    ELSE /\ logsRef' = logsRef \cup {DedupKey(event)}
         /\ events' = IF DedupKey(event) \notin logsRef /\ mounted
                      THEN Append(events, event)
                      ELSE events
         /\ isComplete' = IF IsTerminal(event) /\ mounted THEN TRUE ELSE isComplete
         /\ timers' = IF event.type = Str("complete") THEN timers + 1 ELSE timers

\* events.filter(e => e.type === 'progress' || ... )
IsLogType(event) ==
    event.type \in {Str("progress"), Str("vulnerability"), Str("error"), Str("agent_action")}
LogEvents == SelectSeq(events, IsLogType)

\* Array.prototype.slice(start) with a negative start
Slice(s, start) ==
    LET from == IF start < 0
                THEN (IF Len(s) + start < 0 THEN 0 ELSE Len(s) + start)
                ELSE (IF start > Len(s) THEN Len(s) ELSE start)
    IN  SubSeq(s, from + 1, Len(s))

\* the window taken from the front: logEvents.slice(0, 15)
DisplayEventsFirst ==
    SubSeq(LogEvents, 1, IF Len(LogEvents) < DisplayWindow THEN Len(LogEvents) ELSE DisplayWindow)

\* const displayEvents = logEvents.slice(-15)
DisplayEvents == Slice(LogEvents, 0 - DisplayWindow)

\* String.prototype.startsWith
StartsWith(s, p) == Len(s) >= Len(p) /\ SubSeq(s, 1, Len(p)) = p

\* the level with the tests of the message before the test of the step
LevelPrefixFirst(event) ==
    IF event.message.tag = "string" /\ StartsWith(event.message.str, "Executing:") THEN "TOOL    "
    ELSE IF event.message.tag = "string" /\ StartsWith(event.message.str, "Running:") THEN "CMD     "
    ELSE IF event.message.tag = "string" /\ StartsWith(event.message.str, "Agent says:") THEN "AGENT   "
    ELSE IF event.step = Str("reasoning") THEN "THINK   "
    ELSE "INFO    "

\* LogEntry, the level of a progress event; message.startsWith throws a
\* TypeError when the event has no message
Level(event) ==
    IF event.step = Str("reasoning") THEN "THINK   "
    ELSE IF event.message.tag # "string" THEN "TypeError"
    ELSE IF StartsWith(event.message.str, "Executing:") THEN "TOOL    "
    ELSE IF StartsWith(event.message.str, "Running:") THEN "CMD     "
    ELSE IF StartsWith(event.message.str, "Agent says:") THEN "AGENT   "
    ELSE "INFO    "

\* LogEntry: the level it prints for an event (nothing for the other types)
LogEntry(event) ==
    CASE event.type = Str("progress") -> Level(event)
      [] event.type = Str("vulnerability") -> "VULN    "
      [] event.type = Str("error") -> "ERROR   "
      [] OTHER -> ""

\* displayEvents.map((e, i) => <LogEntry key={i} event={e} />)
Labels == [k \in DOMAIN DisplayEvents |-> LogEntry(DisplayEvents[k])]

(***************************************************************************)
(* PythonBridge (utils/bridge.ts).                                         *)
(***************************************************************************)
\* useState<ScanConfig | null>(null)
NullConfig == [target |-> Undefined, objective |-> Undefined]

\* JSON.stringify(config): the keys whose value is not undefined
Stringify(config) ==
    [key \in {f \in DOMAIN config : config[f] # Undefined} |-> config[key]]

\* the catch block's event: error.message tells how the process failed
CatchEvent ==
    Obj(Str("error"), Undefined,
        Str(CASE procState = "spawnfail" -> "spawn python3 ENOENT"
              [] procState = "killed" -> "Command was killed with SIGTERM"
              [] OTHER -> "Command failed with exit code 1"),
        Undefined, Undefined, Undefined)

\* onEvent(event), as the bridge calls it
Deliver(source, event) ==
    /\ delivered' = Append(delivered, [src |-> source, ev |-> event, stopped |-> stops > 0])
    /\ OnEvent(event)

\* startScan without the write of the configuration
StartScanNoConfig(spawned) ==
    /\ bpc = "init"
    /\ mounted
    /\ process' = "child"
    /\ bpc' = "reading"
    /\ IF spawned
       THEN procState' = "running" /\ stdoutOpen' = TRUE
       ELSE procState' = "spawnfail" /\ stdoutOpen' = FALSE
    /\ UNCHANGED <<stdin, stops, kills, written, nread, displayVars, appVars, checkVars, inputVars, dockerVars>>

\* startScan up to the first line read: spawn, write the configuration,
\* create the line reader.  execa returns a child object also when the
\* spawn fails; its promise then rejects and its stdout yields no line.
StartScan(spawned) ==
    /\ bpc = "init"
    /\ mounted
    /\ process' = "child"
    /\ bpc' = "reading"
    /\ IF spawned
       THEN /\ procState' = "running"
            /\ stdoutOpen' = TRUE
            /\ stdin' = Append(stdin, Stringify(scanConfig))
       ELSE /\ procState' = "spawnfail"
            /\ stdoutOpen' = FALSE
            /\ UNCHANGED stdin
    /\ UNCHANGED <<stops, kills, written, nread, displayVars, appVars, checkVars, inputVars, dockerVars>>

\* ReadLine with the try around the loop instead of inside it: a line that
\* does not parse ends the loop in the catch block
ReadLineBreaks ==
    /\ bpc = "reading"
    /\ nread < Len(written)
    /\ nread' = nread + 1
    /\ IF TrimIsEmpty(written[nread + 1])
       THEN UNCHANGED <<logsRef, events, isComplete, timers, delivered, bpc>>
       ELSE IF ~JsonParses(written[nread + 1])
       THEN bpc' = "done" /\ Deliver("catch", CatchEvent)
       ELSE UNCHANGED bpc /\ Deliver("line", JsonParse(written[nread + 1]))
    /\ UNCHANGED <<process, stops, kills, stdin, procState, stdoutOpen, written,
                   mounted, appVars, checkVars, inputVars, dockerVars>>

\* ReadLine with a report of the lines that do not parse: onEvent is
\* called with an error event for them
ReadLineReports ==
    /\ bpc = "reading"
    /\ nread < Len(written)
    /\ nread' = nread + 1
    /\ IF TrimIsEmpty(written[nread + 1])
       THEN UNCHANGED <<logsRef, events, isComplete, timers, delivered>>
       ELSE IF ~JsonParses(written[nread + 1])
       THEN Deliver("line", ErrorEvent("Unexpected token", 0))
       ELSE Deliver("line", JsonParse(written[nread + 1]))
    /\ UNCHANGED <<bridgeVars, procState, stdoutOpen, written, mounted, appVars, checkVars, inputVars, dockerVars>>

\* ReadLine with the call of onEvent outside the try of the loop: an
\* exception of the callback ends the loop
ReadLineHandlerEnds ==
    /\ bpc = "reading"
    /\ nread < Len(written)
    /\ nread' = nread + 1
    /\ IF TrimIsEmpty(written[nread + 1]) \/ ~JsonParses(written[nread + 1])
       THEN UNCHANGED <<logsRef, events, isComplete, timers, delivered, bpc>>
       ELSE /\ Deliver("line", JsonParse(written[nread + 1]))
            /\ bpc' = IF HandlerThrows(JsonParse(written[nread + 1])) THEN "done" ELSE bpc
    /\ UNCHANGED <<process, stops, kills, stdin, procState, stdoutOpen, written,
                   mounted, appVars, checkVars, inputVars, dockerVars>>

\* one turn of `for await (const line of rl)`
ReadLine ==
    /\ bpc = "reading"
    /\ nread < Len(written)
    /\ nread' = nread + 1
    /\ IF TrimIsEmpty(written[nread + 1]) \/ ~JsonParses(written[nread + 1])
       THEN UNCHANGED <<logsRef, events, isComplete, timers, delivered>>
       ELSE Deliver("line", JsonParse(written[nread + 1]))
    /\ UNCHANGED <<bridgeVars, procState, stdoutOpen, written, mounted, appVars, checkVars, inputVars, dockerVars>>

\* the reader is exhausted: the loop ends and `await this.process` reads
\* this.process, which stop() may have set to null
ReadEnd ==
    /\ bpc = "reading"
    /\ nread = Len(written)
    /\ ~stdoutOpen
    /\ bpc' = IF process = "null" THEN "done" ELSE "awaiting"
    /\ UNCHANGED <<process, stops, kills, stdin, procVars, displayVars, appVars, checkVars, inputVars, dockerVars>>

\* AwaitProcess with an error event for every exit, code 0 included
AwaitProcessAlways ==
    /\ bpc = "awaiting"
    /\ procState \in {"exit0", "exitErr", "killed", "spawnfail"}
    /\ bpc' = "done"
    /\ Deliver("catch", CatchEvent)
    /\ UNCHANGED <<process, stops, kills, stdin, procVars, mounted, appVars, checkVars, inputVars, dockerVars>>

\* AwaitProcess without the call of onEvent in the catch block
AwaitProcessSilent ==
    /\ bpc = "awaiting"
    /\ procState \in {"exit0", "exitErr", "killed", "spawnfail"}
    /\ bpc' = "done"
    /\ UNCHANGED <<logsRef, events, isComplete, timers, delivered>>
    /\ UNCHANGED <<process, stops, kills, stdin, procVars, mounted, appVars, checkVars, inputVars, dockerVars>>

\* the child's promise settles: it resolves on exit code 0 and rejects
\* otherwise, and the catch block calls onEvent
AwaitProcess ==
    /\ bpc = "awaiting"
    /\ procState \in {"exit0", "exitErr", "killed", "spawnfail"}
    /\ bpc' = "done"
    /\ IF procState = "exit0"
       THEN UNCHANGED <<logsRef, events, isComplete, timers, delivered>>
       ELSE Deliver("catch", CatchEvent)
    /\ UNCHANGED <<process, stops, kills, stdin, procVars, mounted, appVars, checkVars, inputVars, dockerVars>>

\* stop() without `this.process = null`
StopKeepsHandle ==
    /\ stops' = stops + 1
    /\ IF process # "null"
       THEN /\ kills' = kills + 1
            /\ procState' = IF procState = "running" THEN "killed" ELSE procState
            /\ stdoutOpen' = FALSE
            /\ UNCHANGED process
       ELSE UNCHANGED <<kills, process, procState, stdoutOpen>>

\* stop(): what it does to the bridge and to the child
Stop ==
    /\ stops' = stops + 1
    /\ IF process # "null"
       THEN /\ kills' = kills + 1
            /\ process' = "null"
            /\ procState' = IF procState = "running" THEN "killed" ELSE procState
            /\ stdoutOpen' = FALSE
       ELSE UNCHANGED <<kills, process, procState, stdoutOpen>>

\* the timer set on a complete event fires: onComplete() sets the screen
\* to 'complete', App no longer renders ScanDisplay and the effect's
\* cleanup calls bridge.stop()
OnCompleteTimer ==
    /\ timers > 0
    /\ timers' = timers - 1
    /\ screen' = "complete"
    /\ IF mounted
       THEN mounted' = FALSE /\ Stop
       ELSE UNCHANGED <<mounted, stops, kills, process, procState, stdoutOpen>>
    /\ UNCHANGED <<bpc, stdin, written, nread, logsRef, events, isComplete,
                   delivered, scanConfig, error, checkVars, inputVars, dockerVars>>

\* calls of stop() the owner of a bridge makes on its own
MaxStops == 2

\* stop() called by the owner of the bridge, at any point
StopCall ==
    /\ stops < MaxStops
    /\ Stop
    /\ UNCHANGED <<bpc, stdin, written, nread, displayVars, appVars, checkVars,
                   inputVars, dockerVars>>

(***************************************************************************)
(* The external process: it writes lines, may close its output, exits.     *)
(***************************************************************************)
ProcWrite(line) ==
    /\ procState = "running"
    /\ stdoutOpen
    /\ Len(written) < MaxLines
    /\ written' = Append(written, line)
    /\ UNCHANGED <<bridgeVars, procState, stdoutOpen, nread, displayVars, appVars, checkVars, inputVars, dockerVars>>

ProcCloseStdout ==
    /\ procState = "running"
    /\ stdoutOpen
    /\ stdoutOpen' = FALSE
    /\ UNCHANGED <<bridgeVars, procState, written, nread, displayVars, appVars, checkVars, inputVars, dockerVars>>

ProcExit(how) ==
    /\ procState = "running"
    /\ procState' = how
    /\ stdoutOpen' = FALSE
    /\ UNCHANGED <<bridgeVars, written, nread, displayVars, appVars, checkVars, inputVars, dockerVars>>

(***************************************************************************)
(* DockerCheck (components/DockerCheck.tsx), TargetInput                   *)
(* (components/TargetInput.tsx) and the screens of App (index.tsx).        *)
(***************************************************************************)
\* onReady without the input screen: () => setScreen('scanning')
OnReadyTimerSkips ==
    /\ readyTimers > 0
    /\ readyTimers' = readyTimers - 1
    /\ screen' = "scanning"
    /\ cancelled' = TRUE
    /\ mounted' = TRUE
    /\ UNCHANGED <<bridgeVars, procVars, logsRef, events, isComplete, timers, delivered,
                   scanConfig, error, cpc, inputVars, dockerVars>>

\* the catch block of checkDocker without its call of onError
CheckDockerSilent ==
    /\ cpc = "awaiting"
    /\ dpc \in {"returned", "threw"}
    /\ cpc' = "done"
    /\ readyTimers' = IF ~cancelled THEN readyTimers + 1 ELSE readyTimers
    /\ UNCHANGED <<error, cancelled>>
    /\ UNCHANGED <<bridgeVars, procVars, displayVars, screen, scanConfig, inputVars, dockerVars>>

\* checkDocker once `await ensureDocker(...)` has settled: on a result the
\* timer of onReady is set, on an error onError = setError is called, App
\* renders its error branch and the cleanup of DockerCheck runs
CheckDocker ==
    /\ cpc = "awaiting"
    /\ dpc \in {"returned", "threw"}
    /\ cpc' = "done"
    /\ IF dpc = "returned"
       THEN /\ readyTimers' = IF ~cancelled THEN readyTimers + 1 ELSE readyTimers
            /\ UNCHANGED <<error, cancelled>>
       ELSE /\ error' = IF cancelled THEN error
                        ELSE IF thrown = "" THEN "Docker setup failed" ELSE thrown
            /\ cancelled' = TRUE
            /\ UNCHANGED readyTimers
    /\ UNCHANGED <<bridgeVars, procVars, displayVars, screen, scanConfig, inputVars, dockerVars>>

\* the timer of onReady fires: setScreen('input'); DockerCheck is no
\* longer rendered (its cleanup sets cancelled) and TargetInput is mounted
OnReadyTimer ==
    /\ readyTimers > 0
    /\ readyTimers' = readyTimers - 1
    /\ screen' = "input"
    /\ cancelled' = TRUE
    /\ step' = "target"
    /\ target' = Str("")
    /\ IF mounted
       THEN mounted' = FALSE /\ Stop
       ELSE UNCHANGED <<mounted, stops, kills, process, procState, stdoutOpen>>
    /\ UNCHANGED <<bpc, stdin, written, nread, logsRef, events, isComplete, timers,
                   delivered, scanConfig, error, cpc, dockerVars>>

\* what the user may enter as the target and as the objective
Targets == {"", "example.com"}
Objectives == {"", "find the flag"}

\* handleTargetSubmit(value)
HandleTargetSubmit(value) ==
    /\ screen = "input" /\ error = ""
    /\ step = "target"
    /\ target' = Str(value)
    /\ step' = "objective"
    /\ UNCHANGED <<bridgeVars, procVars, displayVars, appVars, checkVars, dockerVars>>

\* handleObjectiveSubmit with `objective: value`
HandleObjectiveSubmitRaw(value) ==
    /\ screen = "input" /\ error = ""
    /\ step = "objective"
    /\ scanConfig' = [target |-> target, objective |-> Str(value)]
    /\ screen' = "scanning"
    /\ mounted' = TRUE
    /\ UNCHANGED <<bridgeVars, procVars, logsRef, events, isComplete, timers, delivered,
                   error, checkVars, inputVars, dockerVars>>

\* handleObjectiveSubmit(value): onSubmit({target, objective: value ||
\* undefined}); App stores the configuration, sets the screen to
\* 'scanning' and renders ScanDisplay
HandleObjectiveSubmit(value) ==
    /\ screen = "input" /\ error = ""
    /\ step = "objective"
    /\ scanConfig' = [target |-> target,
                      objective |-> IF value = "" THEN Undefined ELSE Str(value)]
    /\ screen' = "scanning"
    /\ mounted' = TRUE
    /\ UNCHANGED <<bridgeVars, procVars, logsRef, events, isComplete, timers, delivered,
                   error, checkVars, inputVars, dockerVars>>

(***************************************************************************)
(* Specifications.                                                         *)
(***************************************************************************)
InitBridge ==
    /\ process = "null" /\ bpc = "init" /\ stops = 0 /\ kills = 0 /\ stdin = <<>>
    /\ procState = "none" /\ stdoutOpen = FALSE /\ written = <<>> /\ nread = 0
InitDisplay ==
    /\ logsRef = {} /\ events = <<>> /\ isComplete = FALSE /\ timers = 0
    /\ delivered = <<>>
InitDocker ==
    /\ dpc = "idle" /\ status = NoStatus /\ pollI = 0 /\ log = <<>>
    /\ thrown = "" /\ result = NoStatus /\ calls = 0
    /\ probed = NoStatus /\ prior = <<>>

\* ScanDisplay has just been mounted with a configuration
Init ==
    /\ InitBridge /\ InitDisplay /\ InitDocker
    /\ os = "darwin"
    /\ mounted = TRUE
    /\ screen = "scanning"
    /\ scanConfig = [target |-> Str("example.com"), objective |-> Undefined]
    /\ error = ""
    /\ cpc = "done" /\ cancelled = TRUE /\ readyTimers = 0
    /\ step = "objective" /\ target = Str("example.com")

Next ==
    \/ \E spawned \in BOOLEAN : StartScan(spawned)
    \/ ReadLine
    \/ ReadEnd
    \/ AwaitProcess
    \/ OnCompleteTimer
    \/ \E line \in Lines : ProcWrite(line)
    \/ ProcCloseStdout
    \/ \E how \in {"exit0", "exitErr", "killed"} : ProcExit(how)

Spec == Init /\ [][Next]_vars

\* ensureDocker alone, called MaxCalls times on some platform
InitDockerOnly ==
    /\ InitBridge /\ InitDisplay /\ InitDocker
    /\ os \in Platforms
    /\ mounted = FALSE
    /\ screen = "docker-check"
    /\ scanConfig = NullConfig
    /\ error = ""
    /\ cpc = "done" /\ cancelled = TRUE /\ readyTimers = 0
    /\ step = "target" /\ target = Str("")

NextDocker ==
    \/ \E versionOk, psOk, imageOk \in BOOLEAN : EnsureDocker(versionOk, psOk, imageOk)
    \/ \E failAt \in 0..2 : InstallStage(failAt)
    \/ \E openOk \in BOOLEAN : StartStage(openOk)
    \/ \E psOk \in BOOLEAN : Poll(psOk)
    \/ PollTimeout
    \/ \E buildOk \in BOOLEAN : BuildStage(buildOk)

SpecDocker ==
    InitDockerOnly /\ [][NextDocker]_vars

(***************************************************************************)
(* The log view after a long stream: the specification starts where the    *)
(* process has written WindowPrefill progress lines with timestamps        *)
(* 1..WindowPrefill and the bridge has delivered them all, and goes on     *)
(* with WindowLines more lines.                                            *)
(***************************************************************************)
StreamedEvent(k) == ProgressEvent("scan", "m", k)

\* what the process may write as its k-th line
WindowChoices(k) ==
    { JsonLine(StreamedEvent(k)), JsonLine(StreamedEvent(1)),
      JsonLine(VulnerabilityEvent("XSS", k)), JsonLine(AgentActionEvent("run", k)),
      JsonLine(CompleteEvent(k)) }

WindowWrite(line) ==
    /\ procState = "running"
    /\ stdoutOpen
    /\ Len(written) < WindowPrefill + WindowLines
    /\ line \in WindowChoices(Len(written) + 1)
    /\ written' = Append(written, line)
    /\ UNCHANGED <<bridgeVars, procState, stdoutOpen, nread, displayVars, appVars, checkVars, inputVars, dockerVars>>

InitWindow ==
    /\ InitDocker
    /\ os = "darwin"
    /\ screen = "scanning"
    /\ scanConfig = [target |-> Str("example.com"), objective |-> Undefined]
    /\ error = ""
    /\ cpc = "done" /\ cancelled = TRUE /\ readyTimers = 0
    /\ step = "objective" /\ target = Str("example.com")
    /\ process = "child" /\ bpc = "reading" /\ stops = 0 /\ kills = 0
    /\ stdin = <<Stringify(scanConfig)>>
    /\ procState = "running" /\ stdoutOpen = TRUE
    /\ written = [k \in 1..WindowPrefill |-> JsonLine(StreamedEvent(k))]
    /\ nread = WindowPrefill
    /\ mounted = TRUE
    /\ logsRef = {DedupKey(StreamedEvent(k)) : k \in 1..WindowPrefill}
    /\ events = [k \in 1..WindowPrefill |-> StreamedEvent(k)]
    /\ isComplete = FALSE /\ timers = 0
    /\ delivered = [k \in 1..WindowPrefill |->
                      [src |-> "line", ev |-> StreamedEvent(k), stopped |-> FALSE]]

NextWindow ==
    \/ \E line \in WindowChoices(Len(written) + 1) : WindowWrite(line)
    \/ ReadLine
    \/ OnCompleteTimer

SpecWindow == InitWindow /\ [][NextWindow]_vars

(***************************************************************************)
(* The whole program: App starts on the docker-check screen, DockerCheck   *)
(* calls ensureDocker once, the user enters a target and an objective, and *)
(* ScanDisplay runs the scan.                                              *)
(***************************************************************************)
\* lines the process writes in one run of specification SpecApp
MaxAppLines == 1

AppLines ==
    { JsonLine(ProgressEvent("reasoning", "m", 1)),
      JsonLine(CompleteEvent(2)),
      JsonLine(ErrorEvent("boom", 2)) }

AppWrite(line) ==
    /\ procState = "running"
    /\ stdoutOpen
    /\ Len(written) < MaxAppLines
    /\ written' = Append(written, line)
    /\ UNCHANGED <<bridgeVars, procState, stdoutOpen, nread, displayVars, appVars,
                   checkVars, inputVars, dockerVars>>

InitApp ==
    /\ InitBridge /\ InitDisplay /\ InitDocker
    /\ os \in Platforms
    /\ mounted = FALSE
    /\ screen = "docker-check"
    /\ scanConfig = NullConfig
    /\ error = ""
    /\ cpc = "awaiting" /\ cancelled = FALSE /\ readyTimers = 0
    /\ step = "target" /\ target = Str("")

NextApp ==
    \/ \E versionOk, psOk, imageOk \in BOOLEAN :
          cpc = "awaiting" /\ calls = 0 /\ EnsureDocker(versionOk, psOk, imageOk)
    \/ \E failAt \in 0..2 : InstallStage(failAt)
    \/ \E openOk \in BOOLEAN : StartStage(openOk)
    \/ \E psOk \in BOOLEAN : Poll(psOk)
    \/ PollTimeout
    \/ \E buildOk \in BOOLEAN : BuildStage(buildOk)
    \/ CheckDocker
    \/ OnReadyTimer
    \/ \E value \in Targets : HandleTargetSubmit(value)
    \/ \E value \in Objectives : HandleObjectiveSubmit(value)
    \/ \E spawned \in BOOLEAN : StartScan(spawned)
    \/ ReadLine
    \/ ReadEnd
    \/ AwaitProcess
    \/ OnCompleteTimer
    \/ \E line \in AppLines : AppWrite(line)
    \/ ProcCloseStdout
    \/ \E how \in {"exit0", "exitErr", "killed"} : ProcExit(how)

SpecApp == InitApp /\ [][NextApp]_vars

(***************************************************************************)
(* A bridge whose owner calls stop() at any point, before, during and      *)
(* after the run.                                                          *)
(***************************************************************************)
NextBridge ==
    \/ \E spawned \in BOOLEAN : StartScan(spawned)
    \/ ReadLine
    \/ ReadEnd
    \/ AwaitProcess
    \/ OnCompleteTimer
    \/ StopCall
    \/ \E line \in AppLines : AppWrite(line)
    \/ ProcCloseStdout
    \/ \E how \in {"exit0", "exitErr", "killed"} : ProcExit(how)

SpecBridge == Init /\ [][NextBridge]_vars

(***************************************************************************)
(* The run of the end-to-end example: the process writes a line of text,   *)
(* an empty line, a progress event and a complete event, and exits.        *)
(***************************************************************************)
ExampleLines ==
    << TextLine, BlankLine,
       JsonLine(ProgressEvent("reasoning", "m", 1)),
       JsonLine(CompleteEvent(2)) >>

ExampleWrite ==
    /\ procState = "running"
    /\ stdoutOpen
    /\ Len(written) < Len(ExampleLines)
    /\ written' = Append(written, ExampleLines[Len(written) + 1])
    /\ UNCHANGED <<bridgeVars, procState, stdoutOpen, nread, displayVars, appVars,
                   checkVars, inputVars, dockerVars>>

NextExample ==
    \/ \E spawned \in BOOLEAN : StartScan(spawned)
    \/ ReadLine
    \/ ReadEnd
    \/ AwaitProcess
    \/ OnCompleteTimer
    \/ ExampleWrite
    \/ ProcCloseStdout
    \/ \E how \in {"exit0", "exitErr", "killed"} : ProcExit(how)

SpecExample == Init /\ [][NextExample]_vars

(***************************************************************************)
(* The levels of the log view: the process writes progress events whose    *)
(* step and message vary, and ScanDisplay renders them.                    *)
(***************************************************************************)
\* lines the process writes in specification SpecLabel
MaxLabelLines == 2

LabelSteps == {"reasoning", "tool_use"}
LabelMessages ==
    { "Executing: nmap", "Running: ls", "Agent says: done", "Scan started",
      "Executing", "executing: nmap", " Running: ls", "Agent says:" }

\* what the process may write as its k-th line
LabelChoices(k) ==
    { JsonLine(ProgressEvent(st, m, k)) : st \in LabelSteps, m \in LabelMessages }

LabelWrite(line) ==
    /\ procState = "running"
    /\ stdoutOpen
    /\ Len(written) < MaxLabelLines
    /\ written' = Append(written, line)
    /\ UNCHANGED <<bridgeVars, procState, stdoutOpen, nread, displayVars, appVars,
                   checkVars, inputVars, dockerVars>>

NextLabel ==
    \/ \E spawned \in BOOLEAN : StartScan(spawned)
    \/ \E line \in LabelChoices(Len(written) + 1) : LabelWrite(line)
    \/ ReadLine

SpecLabel == Init /\ [][NextLabel]_vars

(***************************************************************************)
(* Properties.                                                             *)
(***************************************************************************)
Count(s, P(_)) == Cardinality({k \in DOMAIN s : P(s[k])})
FromLine(d) == d.src = "line"
FromCatch(d) == d.src = "catch"
TerminalDelivery(d) == IsTerminal(d.ev)
TerminalLine(line) == JsonParses(line) /\ IsTerminal(JsonParse(line))

\* the process keeps to the wire protocol: a complete or error line is
\* the last line it writes
ProtocolObeyed ==
    \A k \in DOMAIN written : TerminalLine(written[k]) => k = Len(written)

\* C1: in one run of startScan at most one terminal event (complete or
\* error) is delivered to onEvent, however the process exits; in
\* particular a terminal line followed by an abnormal exit gives no second,
\* synthesized error.  Stated for the processes that keep to the protocol.
C1_AtMostOneTerminal ==
    ProtocolObeyed => Count(delivered, TerminalDelivery) <= 1

\* C2: when startScan has completed after the process terminated, stop()
\* was not called and no complete/error line was delivered, a synthesized
\* error event has been delivered.
C2_RunEndsWithTerminal ==
    (bpc = "done" /\ stops = 0 /\ ~\E k \in DOMAIN delivered :
                                     FromLine(delivered[k]) /\ TerminalDelivery(delivered[k]))
        => \E k \in DOMAIN delivered : FromCatch(delivered[k])

\* C3: onEvent is never invoked after stop() has been called, neither for
\* a buffered line nor for an error synthesized for the killed process.
\* Stated for the processes that keep to the protocol.
C3_NoEventAfterStop ==
    ProtocolObeyed => \A k \in DOMAIN delivered : ~delivered[k].stopped

\* C4: once a complete or error event has been observed, no later event is
\* accepted: the dedup set and the event history no longer change.  Stated
\* for the processes that keep to the protocol.
C4_NothingAcceptedAfterTerminal ==
    [][(ProtocolObeyed /\ \E k \in DOMAIN delivered : TerminalDelivery(delivered[k]))
         => (logsRef' = logsRef /\ events' = events)]_vars

\* the values of the lines that are not blank and parse, in order
ParsedLines(lines) ==
    LET Kept(line) == ~TrimIsEmpty(line) /\ JsonParses(line)
        kept == SelectSeq(lines, Kept)
    IN  [k \in 1..Len(kept) |-> JsonParse(kept[k])]
\* the events onEvent was called with for lines, in call order
LineEvents ==
    LET fromLines == SelectSeq(delivered, FromLine)
    IN  [k \in 1..Len(fromLines) |-> fromLines[k].ev]

\* C5: the events delivered for output lines are exactly the values of the
\* parseable lines read so far, in arrival order, each once; when the loop
\* has ended every line written has been read; an event of the catch block
\* comes after all of them.
C5_DeliveredInArrivalOrder ==
    /\ LineEvents = ParsedLines(SubSeq(written, 1, nread))
    /\ bpc \in {"awaiting", "done"} => nread = Len(written)
    /\ \A k \in DOMAIN delivered : FromCatch(delivered[k]) => k = Len(delivered)
C5_Witness ==
    /\ bpc = "done"
    /\ Len(written) = 3
    /\ \E k \in DOMAIN written : ~JsonParses(written[k])
    /\ Len(LineEvents) = 2
    /\ LineEvents[1] # LineEvents[2]

\* the dedup key of the specification: type, timestamp and the primary
\* text (message of progress/error, title of vulnerability, action of
\* agent_action)
PrimaryText(event) ==
    CASE event.type \in {Str("progress"), Str("error")} -> event.message
      [] event.type = Str("vulnerability") -> event.title
      [] event.type = Str("agent_action") -> event.action
      [] OTHER -> Undefined
ClaimKey(event) == <<event.type, event.timestamp, PrimaryText(event)>>

\* C6: two events with the same type, timestamp and primary text, both
\* recorded, have exactly one entry in the event history.
C6_ExactlyOneEntryPerKey ==
    mounted =>
        \A k, m \in DOMAIN delivered :
            (k < m /\ ~HandlerThrows(delivered[k].ev)
                   /\ ClaimKey(delivered[k].ev) = ClaimKey(delivered[m].ev))
                => Count(events, LAMBDA e : ClaimKey(e) = ClaimKey(delivered[k].ev)) = 1

\* C7: vulnerability (agent_action) events with the same timestamp and
\* different titles (actions) are both recorded: every such event
\* delivered has its entry in the history.
C7_DistinctTitlesBothRecorded ==
    mounted =>
        \A k \in DOMAIN delivered :
            delivered[k].ev.type \in {Str("vulnerability"), Str("agent_action")}
                => \E a \in DOMAIN events : events[a] = delivered[k].ev

\* C8: the log view has at most 15 entries, all of type progress,
\* vulnerability, error or agent_action, and is the last min(15, n)
\* entries of the n such events of the history, oldest first.
C8_DisplayWindow ==
    LET n == Count(events, IsLogType)
        shown == Len(DisplayEvents)
    IN  /\ shown <= 15
        /\ shown = (IF n < 15 THEN n ELSE 15)
        /\ \A k \in 1..shown :
              /\ DisplayEvents[k].type \in {Str("progress"), Str("vulnerability"),
                                           Str("error"), Str("agent_action")}
              /\ DisplayEvents[k] = LogEvents[Len(LogEvents) - shown + k]
        /\ \A a, b \in DOMAIN LogEvents :
              a < b => \E x, y \in DOMAIN events :
                          x < y /\ events[x] = LogEvents[a] /\ events[y] = LogEvents[b]
C8_Witness ==
    /\ Len(LogEvents) > 15
    /\ Len(events) > Len(LogEvents)
    /\ DisplayEvents[1] # LogEvents[1]
    /\ DisplayEvents[15] = LogEvents[Len(LogEvents)]

\* C9: when the 30 probes of the polling loop all failed, ensureDocker
\* throws the start timeout error, returns no status and runs no build.
AllPollsFailed ==
    /\ Count(log, LAMBDA x : x = Sleep) = PollMax
    /\ Count(log, LAMBDA x : x = Progress("Docker is running")) = 0
C9_StartTimeout ==
    AllPollsFailed =>
        /\ dpc \in {"poll", "threw"}
        /\ dpc = "threw" => thrown = ErrStartTimeout
        /\ result = NoStatus
        /\ Count(log, LAMBDA x : x = Exec("docker build -t inferno-sandbox:latest")) = 0
        /\ Count(log, LAMBDA x : x = Progress("Building sandbox image...")) = 0
C9_Witness ==
    /\ AllPollsFailed
    /\ dpc = "threw"
    /\ thrown = ErrStartTimeout
    /\ ~probed.running

\* C10: a call of ensureDocker whose probe reports installed, running and
\* image built does nothing but the three queries of the probe: no
\* remediation command, no wait, no progress message, no error, and it
\* returns the probed status.
C10_Idempotent ==
    (calls >= 1 /\ probed = DockerStatus(TRUE, TRUE, TRUE)) =>
        /\ log = <<Exec("docker --version"), Exec("docker ps"), Exec("docker images -q")>>
        /\ pollI = 0
        /\ thrown = ""
        /\ dpc \in {"install", "start", "build", "returned"}
        /\ dpc = "returned" => result = probed
C10_Witness ==
    /\ calls = 2
    /\ probed = DockerStatus(TRUE, TRUE, TRUE)
    /\ dpc = "returned"
    /\ result = DockerStatus(TRUE, TRUE, TRUE)
    /\ Count(prior, LAMBDA x : x = Exec("docker build -t inferno-sandbox:latest")) = 1
    /\ Count(prior, LAMBDA x : x = Exec("open -a Docker")) = 1

(***************************************************************************)
(* The session phase as App shows it: the error branch of the render is    *)
(* Failed, otherwise the screen tells the phase.                           *)
(***************************************************************************)
Phase ==
    IF error # "" THEN "Failed"
    ELSE CASE screen = "docker-check" -> "AwaitingEnvironment"
           [] screen = "input" -> "AwaitingConfig"
           [] screen = "scanning" -> "Scanning"
           [] OTHER -> "Complete"

\* an error event was given to the callback of the mounted ScanDisplay as
\* the first terminal event of the run
ErrorObserved ==
    \E k \in DOMAIN delivered :
        /\ delivered[k].ev.type = Str("error")
        /\ ~delivered[k].stopped
        /\ \A j \in 1..(k - 1) : ~TerminalDelivery(delivered[j])
\* startScan has completed and no timer is pending: nothing is left to run
Quiescent == bpc = "done" /\ timers = 0 /\ nread = Len(written)

\* C11: an error event observed while the session is Scanning moves the
\* phase to Failed and never to Complete: once the run is over and no
\* timer is pending the phase is Failed.  Stated for the processes that
\* keep to the protocol.
C11_ErrorEventFails ==
    (ProtocolObeyed /\ ErrorObserved) =>
        /\ Phase # "Complete"
        /\ Quiescent => Phase = "Failed"

ForwardSteps ==
    { <<"AwaitingEnvironment", "AwaitingConfig">>,
      <<"AwaitingConfig", "Scanning">>,
      <<"Scanning", "Complete">> }

\* C12: every step leaves the phase as it is, moves it one phase forward
\* along AwaitingEnvironment, AwaitingConfig, Scanning, Complete, or moves
\* it to Failed, which is never left; and Scanning is entered only when
\* ensureDocker has returned a status and a configuration was submitted.
C12_PhaseForwardOnly ==
    [][/\ \/ Phase' = Phase
          \/ <<Phase, Phase'>> \in ForwardSteps
          \/ Phase' = "Failed"
       /\ Phase' = "Scanning" =>
              /\ dpc' = "returned" /\ result' # NoStatus
              /\ scanConfig' # NullConfig /\ step' = "objective"]_vars
C12_Witness ==
    /\ Phase = "Complete"
    /\ dpc = "returned"
    /\ scanConfig.target = Str("example.com")
    /\ stops = 1

\* C13: when ensureDocker has thrown (at the install, start or build
\* stage), onReady is never scheduled, the screen stays docker-check, no
\* scan is started, and once checkDocker has handled the rejection the
\* error state holds the message thrown: the phase is Failed.
C13_EnsureFailureSurfaced ==
    dpc = "threw" =>
        /\ readyTimers = 0
        /\ screen = "docker-check"
        /\ ~mounted /\ bpc = "init" /\ procState = "none"
        /\ cpc = "done" => (error = thrown /\ thrown # "" /\ Phase = "Failed")
C13_Witness ==
    /\ dpc = "threw"
    /\ cpc = "done"
    /\ error = ErrBuild
    /\ Phase = "Failed"

\* C14: a configuration with an empty target never leads to the scanning
\* screen and no process is spawned for it.
C14_EmptyTargetRejected ==
    (screen = "scanning" \/ mounted \/ procState # "none")
        => scanConfig.target # Str("")

\* C15: when a session that started a bridge run has ended (the phase is
\* Complete or Failed, or an error event ended the scan) and nothing is
\* left to run, stop() has been called on the bridge.
C15_StopOnTerminalPhase ==
    (bpc # "init" /\ Quiescent /\ ProtocolObeyed
       /\ (Phase \in {"Complete", "Failed"} \/ ErrorObserved))
        => stops >= 1

\* C16: every call of stop() leaves the process handle null; it sends the
\* termination signal if and only if there was a handle, so at most once
\* for the process of the run; with no handle (before the run or after an
\* earlier stop) it changes nothing of the process or of the run.
C16_StopIdempotent ==
    [][stops' = stops + 1 =>
          /\ process' = "null"
          /\ kills' = (IF process = "null" THEN kills ELSE kills + 1)
          /\ kills' <= 1
          /\ process = "null" =>
                 UNCHANGED <<procState, stdoutOpen, bpc, delivered, written, nread>>]_vars
C16_Witness ==
    /\ stops = 3
    /\ kills = 1
    /\ procState = "killed"
    /\ process = "null"
    /\ screen = "complete"

\* the events onEvent was called with, in call order
DeliveredEvents == [k \in DOMAIN delivered |-> delivered[k].ev]

\* C17: when the process has written the four lines of the example and
\* exited with code 0, and the run and its timer are over, onEvent was
\* called exactly twice, with the progress event and then the complete
\* event, and the phase is Complete.
C17_EndToEnd ==
    (written = ExampleLines /\ procState = "exit0" /\ Quiescent) =>
        /\ DeliveredEvents = << ProgressEvent("reasoning", "m", 1), CompleteEvent(2) >>
        /\ Phase = "Complete"
C17_Witness ==
    /\ written = ExampleLines
    /\ procState = "exit0"
    /\ Quiescent
    /\ Len(delivered) = 2
    /\ Phase = "Complete"
    /\ events = << ProgressEvent("reasoning", "m", 1), CompleteEvent(2) >>

NoTerminalLine == \A k \in DOMAIN written : ~TerminalLine(written[k])
Crashed == procState \in {"exitErr", "killed"} /\ stops = 0

\* C18: when the process has crashed after writing only lines that are
\* not complete or error events, and startScan has completed, exactly one
\* terminal event was delivered: the error event of the catch block, and
\* it is the last call of onEvent, after every line of the run.
C18_CrashSynthesizesError ==
    (Crashed /\ NoTerminalLine /\ bpc = "done") =>
        /\ Count(delivered, TerminalDelivery) = 1
        /\ FromCatch(delivered[Len(delivered)])
        /\ delivered[Len(delivered)].ev.type = Str("error")
        /\ Len(LineEvents) = Len(ParsedLines(written))
        /\ Len(delivered) = Len(LineEvents) + 1
C18_Witness ==
    /\ procState = "exitErr"
    /\ NoTerminalLine
    /\ bpc = "done"
    /\ Len(delivered) = 3
    /\ Len(written) = 3
    /\ FromCatch(delivered[3])

Discarded(line) == TrimIsEmpty(line) \/ ~JsonParses(line)

\* C19: the step that reads a blank line or a line that does not parse
\* calls onEvent for nothing, changes nothing of the consumer and leaves
\* the loop running; and after every step of the reader the lines it has
\* read that are not blank and parse have all been delivered, those after
\* a discarded line included.
C19_BadLinesDiscarded ==
    [][nread' = nread + 1 =>
          /\ Discarded(written[nread + 1]) =>
                 /\ UNCHANGED <<delivered, logsRef, events, isComplete, timers>>
                 /\ bpc' = "reading"
          /\ LineEvents' = ParsedLines(SubSeq(written, 1, nread + 1))
          /\ ~\E k \in DOMAIN delivered' :
                 FromLine(delivered'[k]) /\ delivered'[k].ev \notin
                     {JsonParse(written[j]) : j \in {i \in 1..(nread + 1) : ~Discarded(written[i])}}]_vars
C19_Witness ==
    /\ Len(written) = 3
    /\ nread = 3
    /\ written[1] = SpaceLine
    /\ written[2] = TextLine
    /\ written[3] = JsonLine(ProgressEvent("reasoning", "m", 1))
    /\ DeliveredEvents = << ProgressEvent("reasoning", "m", 1) >>
    /\ bpc = "reading"

\* a ScanEvent: an object whose type is one of the five variants
IsScanEvent(v) ==
    /\ v.kind = "object"
    /\ v.type \in {Str("progress"), Str("agent_action"), Str("vulnerability"),
                    Str("complete"), Str("error")}

\* C20: every value onEvent is called with is a ScanEvent, and so is
\* every entry of the event history.
C20_OnlyScanEventsDelivered ==
    /\ \A k \in DOMAIN delivered : IsScanEvent(delivered[k].ev)
    /\ \A k \in DOMAIN events : IsScanEvent(events[k])

(***************************************************************************)
(* What a call of ensureDocker did, read from its log.                     *)
(***************************************************************************)
Has(x) == \E k \in DOMAIN log : log[k] = x
Times(x) == Cardinality({k \in DOMAIN log : log[k] = x})
Before(x, y) == \A a, b \in DOMAIN log : (log[a] = x /\ log[b] = y) => a < b
IsProgress(x) == x.k = "progress"
ProgressLog == SelectSeq(log, IsProgress)
IsPrefix(s, t) == Len(s) <= Len(t) /\ SubSeq(t, 1, Len(s)) = s

VersionQuery == Exec("docker --version")
PsQuery == Exec("docker ps")
ImagesQuery == Exec("docker images -q")
OpenCmd == Exec("open -a Docker")
BuildCmd == Exec("docker build -t inferno-sandbox:latest")
InstallCmds ==
    { Exec("brew --version"), Exec("brew install --cask docker"),
      Exec("curl -fsSL https://get.docker.com"), Exec("sh -c") }
MsgInstalling == Progress("Installing Docker...")
MsgInstalled == Progress("Docker installed")
MsgStarting == Progress("Starting Docker...")
MsgRunning == Progress("Docker is running")
MsgBuilding == Progress("Building sandbox image...")
MsgBuilt == Progress("Sandbox image built successfully")

\* C21: the status the probe returns has imageBuilt => running =>
\* installed; the running query is issued only if the installed query
\* answered true and the image query only if the running query did; the
\* probe raises nothing.  Stated where the probe has just returned.
C21_ProbeImplications ==
    (calls >= 1 /\ dpc = "install") =>
        /\ probed.imageBuilt => probed.running
        /\ probed.running => probed.installed
        /\ log = <<VersionQuery>>
                  \o (IF probed.installed THEN <<PsQuery>> ELSE <<>>)
                  \o (IF probed.running THEN <<ImagesQuery>> ELSE <<>>)
        /\ thrown = ""
        /\ status = probed
C21_Witness ==
    /\ calls >= 1 /\ dpc = "install"
    /\ probed = DockerStatus(TRUE, FALSE, FALSE)
    /\ log = <<VersionQuery, PsQuery>>

\* C22: in one call the stages run in the order install, start, build,
\* each action at most once; the start action is performed only when the
\* engine is installed, the build action only when it is installed and
\* running; after a failed install there is no start action, no poll and
\* no build, after a failed start no build.
C22_StagesInOrder ==
    calls >= 1 =>
        /\ Times(MsgInstalling) <= 1 /\ Times(MsgStarting) <= 1 /\ Times(MsgBuilding) <= 1
        /\ \A c \in InstallCmds \cup {OpenCmd, BuildCmd} : Times(c) <= 1
        /\ Before(MsgInstalling, MsgStarting)
        /\ Before(MsgInstalling, MsgBuilding)
        /\ Before(MsgStarting, MsgBuilding)
        /\ Has(MsgStarting) =>
               /\ probed.installed \/ Has(MsgInstalled)
               /\ Before(MsgInstalled, MsgStarting)
        /\ Has(MsgBuilding) =>
               /\ probed.installed \/ Has(MsgInstalled)
               /\ probed.running \/ Has(MsgRunning)
               /\ Before(MsgRunning, MsgBuilding)
        /\ (Has(MsgInstalling) /\ ~Has(MsgInstalled)) =>
               /\ ~Has(MsgStarting) /\ ~Has(OpenCmd)
               /\ ~Has(Sleep) /\ ~Has(PsQuery)
               /\ ~Has(MsgBuilding) /\ ~Has(BuildCmd)
        /\ (Has(MsgStarting) /\ ~Has(MsgRunning)) =>
               ~Has(MsgBuilding) /\ ~Has(BuildCmd)
C22_Witness ==
    /\ os = "darwin"
    /\ dpc = "threw"
    /\ Has(Exec("brew install --cask docker")) /\ Has(MsgInstalled)
    /\ Has(OpenCmd)
    /\ thrown = ErrStartTimeout
    /\ ~Has(BuildCmd)

\* C23: on a platform that has no start procedure, a call that found the
\* engine not running never waits, never polls and never builds; once the
\* engine is installed it fails with the error of the start stage.
C23_NoStartProcedure ==
    (calls >= 1 /\ os # "darwin" /\ ~probed.running) =>
        /\ dpc \in {"install", "start", "threw"}
        /\ Times(Sleep) = 0
        /\ Times(PsQuery) = (IF probed.installed THEN 1 ELSE 0)
        /\ ~Has(BuildCmd) /\ ~Has(MsgBuilding)
        /\ result = NoStatus
        /\ (dpc = "threw" /\ status.installed) => thrown = ErrStartManually
C23_Witness ==
    /\ os = "linux"
    /\ ~probed.installed
    /\ Has(MsgInstalled)
    /\ dpc = "threw"
    /\ thrown = ErrStartManually
    /\ Times(Sleep) = 0

\* the progress messages of a call that performs every stage the probe
\* found unsatisfied
ExpectedProgress ==
    (IF ~probed.installed THEN <<MsgInstalling, MsgInstalled>> ELSE <<>>)
    \o (IF ~probed.running THEN <<MsgStarting, MsgRunning>> ELSE <<>>)
    \o (IF ~probed.imageBuilt THEN <<MsgBuilding, MsgBuilt>> ELSE <<>>)

\* C24: the progress messages of a call are, in stage order, one message
\* before and one after each action performed: a prefix of the messages of
\* the unsatisfied stages, all of them when the call returns, none for a
\* stage the probe found satisfied; the action lies between its messages.
C24_ProgressBeforeAndAfter ==
    calls >= 1 =>
        /\ IsPrefix(ProgressLog, ExpectedProgress)
        /\ dpc = "returned" => ProgressLog = ExpectedProgress
        /\ \A c \in InstallCmds : Before(MsgInstalling, c) /\ Before(c, MsgInstalled)
        /\ Before(MsgStarting, OpenCmd) /\ Before(OpenCmd, MsgRunning)
        /\ Before(MsgStarting, Sleep) /\ Before(Sleep, MsgRunning)
        /\ Before(MsgBuilding, BuildCmd) /\ Before(BuildCmd, MsgBuilt)
C24_Witness ==
    /\ dpc = "returned"
    /\ Len(ProgressLog) = 6
    /\ ProgressLog = ExpectedProgress
    /\ Has(OpenCmd) /\ Has(BuildCmd) /\ Has(Exec("brew install --cask docker"))

\* the shape of the polls in the log: at most 30 waits, every wait is
\* followed at once by its probe, every probe of the loop follows its
\* wait, and nothing of the loop comes after the message of the success
PollShape ==
    /\ Times(Sleep) <= 30
    /\ \A k \in DOMAIN log :
          log[k] = Sleep => (k < Len(log) /\ log[k + 1] = PsQuery)
    /\ \A k \in DOMAIN log :
          (log[k] = PsQuery /\ k > 2) => log[k - 1] = Sleep
    /\ \A k, j \in DOMAIN log :
          (log[k] = MsgRunning /\ j > k) => log[j] \notin {Sleep, PsQuery}

\* C28: a call issues at most 30 probes in its loop, each after a wait of
\* one second and one after the other, and once a probe has reported the
\* engine running the call makes no further wait and no further probe.
C28_PollsSequentialBounded ==
    [][/\ PollShape'
       /\ (calls' = calls /\ status.running) =>
              /\ Times(Sleep)' = Times(Sleep)
              /\ Times(PsQuery)' = Times(PsQuery)]_vars
C28_Witness ==
    /\ dpc = "returned"
    /\ Times(Sleep) = 30
    /\ Times(PsQuery) = 31
    /\ Has(MsgRunning)

\* C30: a call of ensureDocker that returns returns a status whose three
\* fields are true.
C30_ReturnedStatusAllTrue ==
    dpc = "returned" => result = DockerStatus(TRUE, TRUE, TRUE)
C30_Witness ==
    /\ dpc = "returned"
    /\ probed = DockerStatus(FALSE, FALSE, FALSE)
    /\ result = DockerStatus(TRUE, TRUE, TRUE)
    /\ os = "darwin"

\* C25: the configuration is written to the input of the process once,
\* in the step that spawns it, before any call of onEvent, and nothing
\* else is ever written there: every run with a process has exactly the
\* serialized configuration on that channel.
C25_ConfigWrittenOnce ==
    [][/\ stdin' # stdin =>
              /\ bpc = "init" /\ procState = "none" /\ procState' = "running"
              /\ delivered = <<>> /\ delivered' = <<>>
       /\ procState' \notin {"none", "spawnfail"} => stdin' = <<Stringify(scanConfig)>>
       /\ Len(stdin') <= 1]_vars
C25_Witness ==
    /\ bpc = "done"
    /\ procState = "exit0"
    /\ stdin = <<Stringify(scanConfig)>>
    /\ Len(delivered) = 3

\* C26: what is sent to the process has the key objective only when an
\* objective was entered, and never with the empty string as its value,
\* whatever the target; a submission with the objective prompt skipped is
\* sent with the target alone.
C26_ObjectiveAbsent ==
    /\ screen = "scanning" => scanConfig.objective # Str("")
    /\ \A k \in DOMAIN stdin :
          /\ "target" \in DOMAIN stdin[k]
          /\ stdin[k].target = scanConfig.target
          /\ "objective" \in DOMAIN stdin[k] <=> scanConfig.objective # Undefined
          /\ "objective" \in DOMAIN stdin[k] =>
                 stdin[k].objective \in {Str(o) : o \in Objectives \ {""}}
C26_Witness ==
    /\ Len(stdin) = 1
    /\ DOMAIN stdin[1] = {"target"}
    /\ stdin[1].target = Str("example.com")
    /\ scanConfig.objective = Undefined

\* the calls of onComplete made so far: the timers set, one for every
\* complete event given to the callback, less those still pending
OnCompleteCalls ==
    Count(delivered, LAMBDA d : d.ev.type = Str("complete")) - timers

\* C29: over the whole session onComplete and the failure notification
\* are invoked at most once in total.
C29_OneTerminalNotification ==
    OnCompleteCalls + (IF error # "" THEN 1 ELSE 0) <= 1

\* the label of a level: the level without its padding
LabelName(level) ==
    CASE level = "THINK   " -> "THINK"
      [] level = "TOOL    " -> "TOOL"
      [] level = "CMD     " -> "CMD"
      [] level = "AGENT   " -> "AGENT"
      [] level = "INFO    " -> "INFO"
      [] OTHER -> level

\* the label the precedence of the claim gives a progress event
ClaimLabel(event) ==
    CASE event.step = Str("reasoning") -> "THINK"
      [] event.step # Str("reasoning")
           /\ StartsWith(event.message.str, "Executing:") -> "TOOL"
      [] event.step # Str("reasoning")
           /\ ~StartsWith(event.message.str, "Executing:")
           /\ StartsWith(event.message.str, "Running:") -> "CMD"
      [] event.step # Str("reasoning")
           /\ ~StartsWith(event.message.str, "Executing:")
           /\ ~StartsWith(event.message.str, "Running:")
           /\ StartsWith(event.message.str, "Agent says:") -> "AGENT"
      [] OTHER -> "INFO"

\* C27: every progress event of the log view is shown with the label of
\* the precedence THINK, TOOL, CMD, AGENT, INFO, and two events with the
\* same step and message have the same label wherever they stand in the
\* history.
C27_LabelPrecedence ==
    /\ \A k \in DOMAIN DisplayEvents :
          DisplayEvents[k].type = Str("progress") =>
              LabelName(Labels[k]) = ClaimLabel(DisplayEvents[k])
    /\ \A j, k \in DOMAIN DisplayEvents :
          (/\ DisplayEvents[j].step = DisplayEvents[k].step
           /\ DisplayEvents[j].message = DisplayEvents[k].message)
              => Labels[j] = Labels[k]
C27_Witness ==
    /\ Len(DisplayEvents) = 2
    /\ DisplayEvents[1] = ProgressEvent("reasoning", "Executing: nmap", 1)
    /\ DisplayEvents[2] = ProgressEvent("tool_use", "Executing: nmap", 2)
    /\ Labels = << "THINK   ", "TOOL    " >>

\* the image exists in the engine: the call before this one built it
ImageExists == \E k \in DOMAIN prior : prior[k] = MsgBuilt

\* C31: the build is decided from the imageBuilt of the initial probe and
\* the image is never looked up again: a call whose probe found the
\* engine not running makes no image query, and once its start stage has
\* succeeded it ends only after the build command was run, also when the
\* image exists in the engine; a call whose probe found the image runs no
\* build.
C31_BuildFromInitialProbe ==
    calls >= 1 =>
        /\ dpc \in {"install", "start", "poll", "build"} =>
               status.imageBuilt = probed.imageBuilt
        /\ Times(ImagesQuery) = (IF probed.running THEN 1 ELSE 0)
        /\ (~probed.running /\ Has(MsgRunning) /\ dpc \in {"returned", "threw"}) =>
               Has(BuildCmd)
        /\ probed.imageBuilt => ~Has(BuildCmd)
C31_Witness ==
    /\ calls = 2
    /\ ImageExists
    /\ probed = DockerStatus(TRUE, FALSE, FALSE)
    /\ Has(MsgRunning)
    /\ Has(BuildCmd)
    /\ dpc = "returned"

\* C32: the turn of the loop whose call of onEvent throws leaves the loop
\* running, delivers no event of the catch block and changes nothing of
\* the consumer; the lines read after it are delivered in order; an event
\* of the catch block is delivered only for a process that failed.
C32_HandlerExceptionSwallowed ==
    [][/\ (/\ nread' = nread + 1
           /\ ~Discarded(written[nread + 1])
           /\ HandlerThrows(JsonParse(written[nread + 1]))) =>
              /\ bpc' = "reading"
              /\ delivered' = Append(delivered,
                     [src |-> "line", ev |-> JsonParse(written[nread + 1]),
                      stopped |-> stops > 0])
              /\ UNCHANGED <<logsRef, events, isComplete, timers>>
       /\ LineEvents' = ParsedLines(SubSeq(written', 1, nread'))
       /\ \A k \in DOMAIN delivered' :
              FromCatch(delivered'[k]) =>
                  procState' \in {"exitErr", "killed", "spawnfail"}]_vars
C32_Witness ==
    /\ bpc = "done"
    /\ procState = "exit0"
    /\ Len(delivered) = 2
    /\ FromLine(delivered[1]) /\ HandlerThrows(delivered[1].ev)
    /\ FromLine(delivered[2]) /\ delivered[2].ev.type = Str("progress")
    /\ Len(events) = 1

====
